---- MODULE Spec2Model ----
(***************************************************************************)
(* GOT hooking engine (src/src/got_hook.rs) and its demonstration program  *)
(* (src/src/main.rs).                                                      *)
(*                                                                         *)
(* The in-memory ELF image of the module that owns the callback is a       *)
(* record of typed regions; every read of the image is range-checked       *)
(* against the span find_elf_in_memory computed, as object's ReadRef does. *)
(* Addresses are AddrBits wide.                                            *)
(***************************************************************************)
EXTENDS Integers, Sequences, FiniteSets, TLC

\* ------------------------------------------------------------ bounds
AddrBits == 16
MaxHandles == 2
MaxCalls == 1
MaxRelocs == 3
MaxPages == 6
NThreads == 2
MaxOpens == 2

AddrMod == 2 ^ AddrBits

\* ------------------------------------------------- program constants
PAGE_SIZE == 4096
DynSize == 16
RelaSize == 24
SymSize == 24
PhdrSize == 56
EhdrSize == 64
PT_DYNAMIC == 2
PN_XNUM == 65535
DT_PLTRELSZ == 2
DT_STRTAB == 5
DT_SYMTAB == 6
DT_RELA == 7
DT_STRSZ == 10
DT_PLTREL == 20
DT_JMPREL == 23
R_AARCH64_JUMP_SLOT == 1026
R_AARCH64_GLOB_DAT == 1025

\* A symbol name whose bytes are not valid UTF-8.
NonUtf8 == "\\xff"

\* ------------------------------------------------------ image reads
\* ReadRef::read_slice_at / read_at on the image span: the read succeeds
\* iff [offset, offset + count * elemSize) lies inside the span.
InRange(size, offset, count, elemSize) == offset + count * elemSize <= size

\* Memory the image record does not describe reads as zero bytes.
ZeroPhdr == [p_type |-> 0, p_vaddr |-> 0, p_memsz |-> 0]
ZeroDyn == [tag |-> 0, val |-> 0]
ZeroRela == [r_type |-> 0, r_sym |-> 0, r_offset |-> 0]

Cells(region, count, zero) ==
    IF count <= Len(region) THEN SubSeq(region, 1, count)
    ELSE region \o [i \in 1..(count - Len(region)) |-> zero]

\* A slice of Rela64 records: count records, of which the first Len(cells)
\* are described by the image and the rest are zero bytes.
RelaView(region, count) ==
    [cells |-> IF count <= Len(region) THEN SubSeq(region, 1, count) ELSE region,
     count |-> count]

PhdrCells(img, at, count) ==
    Cells(IF at = img.phdr_at THEN img.phdrs ELSE <<>>, count, ZeroPhdr)
DynCells(img, at, count) ==
    Cells(IF at = img.dyn_at THEN img.dyn ELSE <<>>, count, ZeroDyn)
RelaCells(img, at, count) ==
    RelaView(IF at = img.rela_at THEN img.rela ELSE <<>>, count)

\* dynamic_segment.iter().find(|e| tag == e.tag32()): index of the first
\* entry carrying the tag, 0 when there is none.
RECURSIVE FindDynFrom(_, _, _)
FindDynFrom(dyn, tag, i) ==
    IF i > Len(dyn) THEN 0
    ELSE IF dyn[i].tag = tag THEN i
    ELSE FindDynFrom(dyn, tag, i + 1)

FindDyn(dyn, tag) == FindDynFrom(dyn, tag, 1)

\* --------------------------------------------------- find_elf_in_memory
\* The scan over the process mappings: the top address it ends with
\* (0 when the loop falls through without reaching a fourth mapping).
RECURSIVE MapScan(_, _, _, _)
MapScan(maps, base, i, found) ==
    IF i > Len(maps) THEN 0
    ELSE IF found = 0
         THEN MapScan(maps, base, i + 1, IF maps[i].start = base THEN 1 ELSE 0)
    ELSE IF found <= 2
         THEN MapScan(maps, base, i + 1, found + 1)
    ELSE maps[i].end

\* The span handed to slice::from_raw_parts, as the set of outcomes a build
\* can produce. top_address - base_address on u64 overflows when the scan
\* left top_address at 0: with overflow checks the subtraction panics,
\* without them it wraps.
FindElfInMemory(maps, base) ==
    LET top == MapScan(maps, base, 1, 0)
    IN  IF top >= base
        THEN {[err |-> "Ok", size |-> top - base]}
        ELSE {[err |-> "Panic", size |-> 0],
              [err |-> "Ok", size |-> (top - base) % AddrMod]}

\* ------------------------------------------------------ get_elf_segments
\* FileHeader::phnum: e_phnum, or section 0's sh_info when e_phnum is
\* PN_XNUM (sh0_info = -1: there is no section header to read it from).
Phnum(img) ==
    IF img.e_phnum < PN_XNUM THEN [err |-> "Ok", n |-> img.e_phnum]
    ELSE IF img.sh0_info < 0 THEN [err |-> "GetElfProgramHeadersNumber", n |-> 0]
    ELSE [err |-> "Ok", n |-> img.sh0_info]

\* get_elf_segments without the check of the program header count.
GetElfSegmentsNoCountCheck(img, size) ==
    IF img.e_phoff = 0 THEN [err |-> "ElfHasNoProgramHeaders", segs |-> <<>>]
    ELSE LET pn == Phnum(img)
         IN  IF pn.err # "Ok" THEN [err |-> pn.err, segs |-> <<>>]
             ELSE IF ~InRange(size, img.e_phoff, pn.n, PhdrSize)
                  THEN [err |-> "ReadElfProgramHeaders", segs |-> <<>>]
             ELSE [err |-> "Ok", segs |-> PhdrCells(img, img.e_phoff, pn.n)]

GetElfSegments(img, size) ==
    IF img.e_phoff = 0 THEN [err |-> "ElfHasNoProgramHeaders", segs |-> <<>>]
    ELSE LET pn == Phnum(img)
         IN  IF pn.err # "Ok" THEN [err |-> pn.err, segs |-> <<>>]
             ELSE IF pn.n = 0 THEN [err |-> "ElfHasNoProgramHeaders", segs |-> <<>>]
             ELSE IF ~InRange(size, img.e_phoff, pn.n, PhdrSize)
                  THEN [err |-> "ReadElfProgramHeaders", segs |-> <<>>]
             ELSE [err |-> "Ok", segs |-> PhdrCells(img, img.e_phoff, pn.n)]

\* ------------------------------------------------ find_elf_dynamic_segment
RECURSIVE FindSegmentFrom(_, _, _)
FindSegmentFrom(segs, type, i) ==
    IF i > Len(segs) THEN 0
    ELSE IF segs[i].p_type = type THEN i
    ELSE FindSegmentFrom(segs, type, i + 1)

FindElfDynamicSegment(img, size) ==
    LET s == GetElfSegments(img, size)
    IN  IF s.err # "Ok" THEN [err |-> s.err, dyn |-> <<>>]
        ELSE LET k == FindSegmentFrom(s.segs, PT_DYNAMIC, 1)
             IN  IF k = 0 THEN [err |-> "ElfHasNoDynamicSegment", dyn |-> <<>>]
                 ELSE LET ph == s.segs[k]
                          n == ph.p_memsz \div DynSize
                      IN  IF ~InRange(size, ph.p_vaddr, n, DynSize)
                          THEN [err |-> "ReadElfDynamicSegment", dyn |-> <<>>]
                          ELSE [err |-> "Ok", dyn |-> DynCells(img, ph.p_vaddr, n)]

\* ------------------------------------------- find_elf_plt_relocation_table
\* The number of Rela64 records read at DT_JMPREL: the code hands
\* DT_PLTRELSZ's value to read_slice_at as the element count.
PltRelocationCount(pltrelsz) == pltrelsz

FindElfPltRelocationTable(img, size, dyn) ==
    LET a == FindDyn(dyn, DT_JMPREL)
        s == FindDyn(dyn, DT_PLTRELSZ)
    IN  IF a = 0 \/ s = 0
        THEN [err |-> "ElfHasNoPltRelocationTable", table |-> RelaView(<<>>, 0)]
        ELSE LET n == PltRelocationCount(dyn[s].val)
             IN  IF ~InRange(size, dyn[a].val, n, RelaSize)
                 THEN [err |-> "ReadElfPltRelocationTable", table |-> RelaView(<<>>, 0)]
                 ELSE [err |-> "Ok", table |-> RelaCells(img, dyn[a].val, n)]

\* ------------------------------------------- find_elf_dynamic_string_table
\* StringTable::new(data, address, address + size): no read happens here.
FindElfDynamicStringTable(img, size, dyn) ==
    LET a == FindDyn(dyn, DT_STRTAB)
        s == FindDyn(dyn, DT_STRSZ)
    IN  IF a = 0 \/ s = 0
        THEN [err |-> "ElfHasNoPltRelocationTable", start |-> 0, end |-> 0]
        ELSE [err |-> "Ok", start |-> dyn[a].val, end |-> dyn[a].val + dyn[s].val]

\* ------------------------------------------- find_elf_function_got_entry
\* data.read_at::<Sym64>(symtab + index * size_of::<Sym64>()): the symbol's
\* st_name, or the read fails.
ReadSymbol(img, size, symtab, index) ==
    LET at == symtab + index * SymSize
    IN  IF ~InRange(size, at, 1, SymSize) THEN [err |-> "ReadElfSymbol", st_name |-> 0]
        ELSE IF symtab = img.sym_at /\ index + 1 <= Len(img.syms)
        THEN [err |-> "Ok", st_name |-> img.syms[index + 1]]
        ELSE [err |-> "Ok", st_name |-> 0]

\* symbol.name(endian, strings) then str::from_utf8: the bytes from
\* start + st_name up to the first NUL before end.
SymbolName(img, size, strtab, st_name) ==
    LET at == strtab.start + st_name
        known == strtab.start = img.str_at /\ st_name \in DOMAIN img.strs
        len == IF known THEN img.strs[st_name].len ELSE 0
    IN  IF strtab.end > size \/ at + len >= strtab.end
        THEN [err |-> "FindElfSymbolName", name |-> ""]
        ELSE IF known /\ img.strs[st_name].name = NonUtf8
        THEN [err |-> "NonUtf8ElfSymbolName", name |-> ""]
        ELSE [err |-> "Ok", name |-> IF known THEN img.strs[st_name].name ELSE ""]

\* Whether the loop body returns at this symbol name.
NameMatches(symbol_name, function_name) == symbol_name = function_name

\* A loop body without the check of the relocation's kind.
SkipsNothing(relocation) == FALSE

\* Whether the loop body skips this relocation before reading its symbol.
SkipsRelocation(relocation) == relocation.r_type # R_AARCH64_JUMP_SLOT

\* The loop over the relocation table from record i on; scanned counts the
\* records the loop has looked at when it ends.
RECURSIVE ScanRelocations(_, _, _, _, _, _, _, _)
ScanRelocations(base, img, size, symtab, table, strtab, name, i) ==
    IF i > Len(table.cells)
    THEN \* the records left are zero bytes: their type, 0, is not the jump
         \* slot's, and the loop skips them up to the slice's end
         [err |-> "NoGotEntryForFunction", addr |-> 0, scanned |-> table.count]
    ELSE IF SkipsRelocation(table.cells[i])
    THEN ScanRelocations(base, img, size, symtab, table, strtab, name, i + 1)
    ELSE LET sym == ReadSymbol(img, size, symtab, table.cells[i].r_sym)
         IN  IF sym.err # "Ok" THEN [err |-> sym.err, addr |-> 0, scanned |-> i]
             ELSE LET nm == SymbolName(img, size, strtab, sym.st_name)
                  IN  IF nm.err # "Ok" THEN [err |-> nm.err, addr |-> 0, scanned |-> i]
                      ELSE IF ~NameMatches(nm.name, name)
                      THEN ScanRelocations(base, img, size, symtab, table, strtab, name, i + 1)
                      ELSE [err |-> "Ok", addr |-> base + table.cells[i].r_offset, scanned |-> i]

FindElfFunctionGotEntry(base, img, size, dyn, table, strtab, name) ==
    LET t == FindDyn(dyn, DT_SYMTAB)
    IN  IF t = 0
        THEN [err |-> "ElfHasNoPltRelocationTable", addr |-> 0, scanned |-> 0]
        ELSE ScanRelocations(base, img, size, dyn[t].val, table, strtab, name, 1)

\* ----------------------------------------------------------- hook_got_entry
\* hook_got_entry with the write moved in front of the mprotect call.
HookGotEntryWriteFirst(got, entry_address, callback, protOk) ==
    [err |-> IF protOk THEN "Ok" ELSE "ModifyMemoryPageProtection",
     page |-> entry_address - (entry_address % PAGE_SIZE),
     got |-> [got EXCEPT ![entry_address] = callback]]

\* mprotect on the slot's page, then the write of the callback.
HookGotEntry(got, entry_address, callback, protOk) ==
    LET got_entry_page == entry_address - (entry_address % PAGE_SIZE)
    IN  IF ~protOk
        THEN [err |-> "ModifyMemoryPageProtection", page |-> got_entry_page, got |-> got]
        ELSE [err |-> "Ok", page |-> got_entry_page,
              got |-> [got EXCEPT ![entry_address] = callback]]

\* The backup read from the slot after hook_got_entry has written it.
BackupAfterHook(gotBefore, gotAfter, entry) == gotAfter[entry]

\* The value new() keeps as original_function: read from the slot before
\* hook_got_entry runs.
BackupOriginal(gotBefore, gotAfter, entry) == gotBefore[entry]

\* ---------------------------------------------------------- GotHook::new
\* dladdr's dli_fbase for the callbacks: the base of the module they are in.
ModuleBase == 4 * PAGE_SIZE

\* The steps of new() from the header parse to the slot's address (lines
\* 33-62) on the span m that find_elf_in_memory returned: they read the
\* image and write nothing.
LocateGotEntry(image, m, function_name) ==
    LET Fail(e) == [err |-> e, addr |-> 0]
        d == FindElfDynamicSegment(image, m.size)
        t == FindElfPltRelocationTable(image, m.size, d.dyn)
        s == FindElfDynamicStringTable(image, m.size, d.dyn)
        e == FindElfFunctionGotEntry(ModuleBase, image, m.size, d.dyn, t.table,
                                     s, function_name)
    IN  IF m.err # "Ok" THEN Fail(m.err)
        ELSE IF ~(InRange(m.size, 0, 1, EhdrSize) /\ image.ident_ok)
        THEN Fail("ParseElfHeader")
        ELSE IF ~image.endian_ok THEN Fail("GetElfEndianness")
        ELSE IF d.err # "Ok" THEN Fail(d.err)
        ELSE IF t.err # "Ok" THEN Fail(t.err)
        ELSE IF s.err # "Ok" THEN Fail(s.err)
        ELSE [err |-> e.err, addr |-> e.addr]

\* ------------------------------------------------------- Drop for GotHook
\* drop() putting the whole table back instead of the handle's own slot.
DropWriteAll(g, handle) ==
    [s \in DOMAIN g |-> IF s = handle.got_entry THEN handle.original_function
                        ELSE IF s = ModuleBase + 3 * PAGE_SIZE + 256 + 16 THEN "libc_read"
                        ELSE "libc_open"]

\* A release that leaves the value usable, so that it can be released again.
DroppedButLive(handle) == [handle EXCEPT !.restores = @ + 1]

\* The write drop() makes: the handle's own slot gets original_function.
DropWrite(g, handle) == [g EXCEPT ![handle.got_entry] = handle.original_function]

\* The handle after drop glue ran: the value is gone, it cannot be dropped
\* or used again.
Dropped(handle) == [handle EXCEPT !.state = "Released", !.restores = @ + 1]

\* --------------------------------------------------------- module images
Slot(i) == 3 * PAGE_SIZE + 256 + 8 * i

WellFormed ==
    [ ident_ok |-> TRUE, endian_ok |-> TRUE,
      e_phoff |-> 64, e_phnum |-> 2, sh0_info |-> -1,
      phdr_at |-> 64,
      phdrs |-> << [p_type |-> 1, p_vaddr |-> 0, p_memsz |-> 2048],
                   [p_type |-> PT_DYNAMIC, p_vaddr |-> 3 * PAGE_SIZE, p_memsz |-> 7 * DynSize] >>,
      dyn_at |-> 3 * PAGE_SIZE,
      dyn |-> << [tag |-> DT_STRTAB, val |-> 768],
                 [tag |-> DT_SYMTAB, val |-> 512],
                 [tag |-> DT_STRSZ, val |-> 17],
                 [tag |-> DT_PLTRELSZ, val |-> 4 * RelaSize],
                 [tag |-> DT_PLTREL, val |-> DT_RELA],
                 [tag |-> DT_JMPREL, val |-> 1024],
                 [tag |-> 0, val |-> 0] >>,
      rela_at |-> 1024,
      rela |-> << [r_type |-> R_AARCH64_GLOB_DAT, r_sym |-> 1, r_offset |-> Slot(0)],
                  [r_type |-> R_AARCH64_JUMP_SLOT, r_sym |-> 1, r_offset |-> Slot(1)],
                  [r_type |-> R_AARCH64_JUMP_SLOT, r_sym |-> 2, r_offset |-> Slot(2)],
                  [r_type |-> R_AARCH64_JUMP_SLOT, r_sym |-> 1, r_offset |-> Slot(3)] >>,
      sym_at |-> 512,
      syms |-> << 0, 1, 6, 11 >>,
      str_at |-> 768,
      strs |-> (0 :> [name |-> "", len |-> 0]) @@ (1 :> [name |-> "open", len |-> 4])
               @@ (6 :> [name |-> "read", len |-> 4]) @@ (11 :> [name |-> "close", len |-> 5]) ]

WithoutTag(image, tag) ==
    [image EXCEPT !.dyn = SelectSeq(image.dyn, LAMBDA e : e.tag # tag) \o << ZeroDyn >>]

RequiredTags == {DT_JMPREL, DT_PLTRELSZ, DT_PLTREL, DT_STRTAB, DT_STRSZ, DT_SYMTAB}

NoDynamicSegment ==
    [WellFormed EXCEPT !.phdrs = << WellFormed.phdrs[1], [p_type |-> 4, p_vaddr |-> 0, p_memsz |-> 0] >>]

\* The images install is run on: the well-formed one, and images with one
\* structure missing, unreadable or malformed.
Images ==
    { WellFormed,
       NoDynamicSegment,
       [WellFormed EXCEPT !.e_phoff = 0],
       [WellFormed EXCEPT !.e_phnum = 0],
       [NoDynamicSegment EXCEPT !.e_phoff = 0, !.e_phnum = 0],
       [NoDynamicSegment EXCEPT !.e_phnum = 0],
       [WellFormed EXCEPT !.e_phnum = PN_XNUM],
       [WellFormed EXCEPT !.e_phnum = PN_XNUM, !.sh0_info = 0],
       [WellFormed EXCEPT !.e_phoff = 4 * PAGE_SIZE - PhdrSize],
       [WellFormed EXCEPT !.phdrs[2].p_vaddr = 4 * PAGE_SIZE - DynSize],
       [WellFormed EXCEPT !.ident_ok = FALSE],
       [WellFormed EXCEPT !.endian_ok = FALSE],
       \* the relocation table ends at the image's last byte
       [WellFormed EXCEPT !.rela_at = 4 * PAGE_SIZE - 4 * RelaSize,
                          !.dyn[6].val = 4 * PAGE_SIZE - 4 * RelaSize],
       \* symbol 1 lies past the image's end
       [WellFormed EXCEPT !.sym_at = 4 * PAGE_SIZE - 2 * SymSize,
                          !.dyn[2].val = 4 * PAGE_SIZE - 2 * SymSize,
                          !.syms = << 6, 1, 6, 6 >>],
       \* symbol 1's name offset lies past the string table
       [WellFormed EXCEPT !.syms = << 0, 40, 6, 11 >>],
       [WellFormed EXCEPT !.strs = @ @@ (3 :> [name |-> NonUtf8, len |-> 1]),
                          !.syms = << 0, 3, 6, 11 >>] }
    \cup { WithoutTag(WellFormed, tag) : tag \in RequiredTags }

Mapping(k) == [start |-> k * PAGE_SIZE, end |-> (k + 1) * PAGE_SIZE]

\* The module's four mappings with others around them, and a list in which
\* only two mappings follow the module's first.
GoodMaps == << Mapping(1), Mapping(4), Mapping(5), Mapping(6), Mapping(7), Mapping(9) >>
ShortMaps == << Mapping(1), Mapping(4), Mapping(5), Mapping(6) >>
MapLists == {GoodMaps, ShortMaps}

Names == {"open", "read", "close"}
Callbacks == {"R1", "R2"}
Envs == {"ok", "dladdr", "myself", "maps", "mprotect"}
Handles == 1..MaxHandles

\* ---------------------------------------------------------- GotHook::new
\* The results new() can return. env is what the operating system does to
\* this call: "ok", or the one collaborator that fails (dladdr,
\* Process::myself, Process::maps, mprotect).
GotHookNew(image, mappings, g, function_name, callback, env) ==
    LET Fail(e) == [err |-> e, got |-> g, entry |-> 0, original |-> ""]
        After(m) ==
            LET loc == LocateGotEntry(image, m, function_name)
            IN  IF loc.err # "Ok" THEN Fail(loc.err)
                ELSE LET hk == HookGotEntry(g, loc.addr, callback, env # "mprotect")
                     IN  IF hk.err # "Ok" THEN [Fail(hk.err) EXCEPT !.got = hk.got]
                         ELSE [err |-> "Ok", got |-> hk.got, entry |-> loc.addr,
                               original |-> BackupOriginal(g, hk.got, loc.addr)]
    IN  IF env = "dladdr" THEN {Fail("Dladdr")}
        ELSE IF env = "myself" THEN {Fail("FindCurrentProcess")}
        ELSE IF env = "maps" THEN {Fail("ReadProcessMaps")}
        ELSE {After(m) : m \in FindElfInMemory(mappings, ModuleBase)}

\* hook.get_original_function()
GetOriginalFunction(handle) == handle.original_function

InitialGot ==
    (ModuleBase + Slot(0) :> "libc_open") @@ (ModuleBase + Slot(1) :> "libc_open")
    @@ (ModuleBase + Slot(2) :> "libc_read") @@ (ModuleBase + Slot(3) :> "libc_open")

NoHandle ==
    [state |-> "none", got_entry |-> 0, original_function |-> "", callback |-> "",
     before |-> "", restores |-> 0, calls |-> 0]

\* The value Ok(Self { got_entry, original_function }), with what the claims
\* track about it: the callback installed, the slot's value before new().
NewHandle(r, callback, g) ==
    [state |-> "Installed", got_entry |-> r.entry, original_function |-> r.original,
     callback |-> callback, before |-> g[r.entry], restores |-> 0, calls |-> 0]

NoRet == [op |-> "none", h |-> 0, err |-> "Ok"]

\* ------------------------------------------------------------------ state
VARIABLES
    img,        \* the image of the module the callbacks live in
    maps,       \* the process's mappings, in /proc order
    got,        \* the module's GOT: slot address -> pointer stored there
    handles,    \* the GotHook values created so far
    ret,        \* the last GotHook call and what it returned
    invoked,    \* calls made through the module's slots
    arg, res,   \* a function of got_hook.rs applied on its own: input, result
    pc,         \* main.rs: where init, fini and each application thread are
    mutex,      \* main.rs: who holds OPEN_HOOK's lock: free, init, fini, thread
    open_hook,  \* main.rs: OPEN_HOOK's content, 0 (None) or the handle in Some
    opens       \* main.rs: per thread, how its calls to open ended

vars == << img, maps, got, handles, ret, invoked, arg, res, pc, mutex, open_hook, opens >>

engineVars == << img, maps, got, handles, ret, invoked >>
fnVars == << arg, res >>
demoVars == << pc, mutex, open_hook, opens >>

Threads == 1..NThreads

EngineInit ==
    /\ got = InitialGot
    /\ handles = [h \in Handles |-> NoHandle]
    /\ ret = NoRet
    /\ invoked = 0

FnIdle == arg = [fn |-> "none"] /\ res = [fn |-> "none"]

DemoIdle ==
    /\ pc = [init |-> "idle", fini |-> "idle", thread |-> [t \in Threads |-> "idle"]]
    /\ mutex = "free"
    /\ open_hook = 0
    /\ opens = [t \in Threads |-> [started |-> 0, direct |-> 0, forwarded |-> 0, lost |-> 0]]

Init ==
    /\ img \in Images
    /\ maps \in MapLists
    /\ EngineInit
    /\ FnIdle
    /\ DemoIdle

\* GotHook::new(function_name, callback), the value bound to handle h.
Install(h, function_name, callback, env) ==
    /\ handles[h].state = "none"
    /\ \A k \in Handles : k < h => handles[k].state # "none"
    /\ \E r \in GotHookNew(img, maps, got, function_name, callback, env) :
           /\ got' = r.got
           /\ handles' = IF r.err = "Ok"
                         THEN [handles EXCEPT ![h] = NewHandle(r, callback, got)]
                         ELSE handles
           /\ ret' = [op |-> "install", h |-> h, err |-> r.err]
    /\ UNCHANGED << img, maps, invoked, fnVars, demoVars >>

\* A call the module makes through one of its slots: it reaches whatever the
\* slot holds. calls counts, per handle, the times its replacement was
\* reached this way.
Invoke(slot) ==
    /\ invoked < MaxCalls
    /\ invoked' = invoked + 1
    /\ handles' = [h \in Handles |->
                    IF /\ handles[h].state = "Installed"
                       /\ handles[h].got_entry = slot
                       /\ handles[h].callback = got[slot]
                    THEN [handles[h] EXCEPT !.calls = @ + 1]
                    ELSE handles[h]]
    /\ UNCHANGED << img, maps, got, ret, fnVars, demoVars >>

\* The handle goes out of scope: drop().
Drop(h) ==
    /\ handles[h].state = "Installed"
    /\ got' = DropWrite(got, handles[h])
    /\ handles' = [handles EXCEPT ![h] = Dropped(handles[h])]
    /\ ret' = [NoRet EXCEPT !.op = "drop", !.h = h]
    /\ UNCHANGED << img, maps, invoked, fnVars, demoVars >>

Next ==
    \/ \E h \in Handles, n \in Names, c \in Callbacks, e \in Envs :
          Install(h, n, c, e)
    \/ \E s \in DOMAIN got : Invoke(s)
    \/ \E h \in Handles : Drop(h)

Spec == Init /\ [][Next]_vars

\* ------------------------------------------- functions applied on their own
\* An image whose symbols 1 and 2 are "open" and "read", whose symbol 3 has
\* a name offset past the string table and whose symbol 4 lies past the
\* image's end.
ScanImage ==
    [WellFormed EXCEPT !.sym_at = 4 * PAGE_SIZE - 4 * SymSize,
                       !.dyn[2].val = 4 * PAGE_SIZE - 4 * SymSize,
                       !.syms = << 0, 1, 6, 40 >>]
NamedSymbols == (1 :> "open") @@ (2 :> "read")
SymbolIndexes == {1, 2, 3, 4}
ScanSize == 4 * PAGE_SIZE

RelocationTables ==
    UNION { [1..k -> [r_type : {R_AARCH64_JUMP_SLOT, R_AARCH64_GLOB_DAT},
                      r_sym : SymbolIndexes]] : k \in 0..MaxRelocs }

\* The table's records, record i relocating slot i.
TableOf(a) ==
    [i \in DOMAIN a.table |->
        [r_type |-> a.table[i].r_type, r_sym |-> a.table[i].r_sym, r_offset |-> Slot(i)]]

ScanArgs ==
    [fn : {"scan"}, table : RelocationTables, name : {"open", "close"}, symtab : BOOLEAN]

RECURSIVE SortedPages(_)
SortedPages(S) ==
    IF S = {} THEN << >>
    ELSE LET p == CHOOSE x \in S : \A y \in S : x <= y
         IN  << Mapping(p) >> \o SortedPages(S \ {p})

MapArgs == [fn : {"maps"}, pages : SUBSET (1..MaxPages), base : 1..MaxPages]

\* An image whose relocation table has n records, placed at 1024 or so
\* that it ends with the image; the record after the table's last decodes
\* as a jump slot too.
TableImage(n, atEnd) ==
    LET at == IF atEnd THEN 4 * PAGE_SIZE - n * RelaSize ELSE 1024
    IN  [WellFormed EXCEPT
            !.rela_at = at,
            !.dyn[6].val = at,
            !.dyn[4].val = n * RelaSize,
            !.rela = [i \in 1..(n + 1) |->
                        [r_type |-> R_AARCH64_JUMP_SLOT, r_sym |-> 1, r_offset |-> Slot(i)]]]

TableArgs == [fn : {"table"}, n : 0..MaxRelocs, atEnd : BOOLEAN]

FnInit ==
    /\ img = WellFormed
    /\ maps = GoodMaps
    /\ EngineInit
    /\ DemoIdle
    /\ arg \in ScanArgs \cup MapArgs \cup TableArgs
    /\ res = [fn |-> "none"]

\* find_elf_function_got_entry on ScanImage with the table and name of arg.
ApplyFindElfFunctionGotEntry ==
    /\ arg.fn = "scan" /\ res.fn = "none"
    /\ LET dyn == IF arg.symtab THEN ScanImage.dyn
                  ELSE WithoutTag(ScanImage, DT_SYMTAB).dyn
           r == FindElfFunctionGotEntry(
                    ModuleBase, ScanImage, ScanSize, dyn,
                    RelaView(TableOf(arg), Len(arg.table)),
                    FindElfDynamicStringTable(ScanImage, ScanSize, dyn), arg.name)
       IN  res' = [fn |-> "scan", err |-> r.err, addr |-> r.addr, scanned |-> r.scanned]
    /\ UNCHANGED << engineVars, arg, demoVars >>

\* find_elf_in_memory on the mappings and base address of arg.
ApplyFindElfInMemory ==
    /\ arg.fn = "maps" /\ res.fn = "none"
    /\ \E r \in FindElfInMemory(SortedPages(arg.pages), arg.base * PAGE_SIZE) :
           res' = [fn |-> "maps", err |-> r.err, size |-> r.size]
    /\ UNCHANGED << engineVars, arg, demoVars >>

\* find_elf_plt_relocation_table on the image of arg.
ApplyFindElfPltRelocationTable ==
    /\ arg.fn = "table" /\ res.fn = "none"
    /\ LET image == TableImage(arg.n, arg.atEnd)
           r == FindElfPltRelocationTable(image, 4 * PAGE_SIZE, image.dyn)
       IN  res' = [fn |-> "table", err |-> r.err, count |-> r.table.count]
    /\ UNCHANGED << engineVars, arg, demoVars >>

FnNext ==
    \/ ApplyFindElfFunctionGotEntry
    \/ ApplyFindElfInMemory
    \/ ApplyFindElfPltRelocationTable

SpecFn == FnInit /\ [][FnNext]_vars

\* ------------------------------------------------------------- main.rs
\* The slot main.rs's calls to open go through.
OpenSlot == ModuleBase + Slot(1)

DemoInit ==
    /\ img = WellFormed
    /\ maps = GoodMaps
    /\ EngineInit
    /\ FnIdle
    /\ DemoIdle

Running == pc.init # "aborted"

\* init: OPEN_HOOK.lock().unwrap()
InitLock ==
    /\ pc.init = "idle" /\ mutex = "free"
    /\ mutex' = "init"
    /\ pc' = [pc EXCEPT !.init = "locked"]
    /\ UNCHANGED << engineVars, fnVars, open_hook, opens >>

\* init: GotHook::new("open", open_callback_ptr).unwrap(); the panic of
\* unwrap() leaves the constructor and ends the process.
InitInstall(env) ==
    /\ pc.init = "locked"
    /\ \E r \in GotHookNew(img, maps, got, "open", "open_callback", env) :
           /\ got' = r.got
           /\ handles' = IF r.err = "Ok"
                         THEN [handles EXCEPT ![1] = NewHandle(r, "open_callback", got)]
                         ELSE handles
           /\ ret' = [op |-> "install", h |-> 1, err |-> r.err]
           /\ pc' = [pc EXCEPT !.init = IF r.err = "Ok" THEN "installed" ELSE "aborted"]
    /\ UNCHANGED << img, maps, invoked, fnVars, mutex, open_hook, opens >>

\* init: *open_hook = Some(hook)
InitStore ==
    /\ pc.init = "installed"
    /\ open_hook' = 1
    /\ pc' = [pc EXCEPT !.init = "stored"]
    /\ UNCHANGED << engineVars, fnVars, mutex, opens >>

\* init returns: the guard is dropped.
InitUnlock ==
    /\ pc.init = "stored"
    /\ mutex' = "free"
    /\ pc' = [pc EXCEPT !.init = "done"]
    /\ UNCHANGED << engineVars, fnVars, open_hook, opens >>

\* fini: OPEN_HOOK.lock().unwrap()
FiniLock ==
    /\ pc.init = "done" /\ pc.fini = "idle" /\ mutex = "free"
    /\ mutex' = "fini"
    /\ pc' = [pc EXCEPT !.fini = "locked"]
    /\ UNCHANGED << engineVars, fnVars, open_hook, opens >>

\* fini: *open_hook = None, which drops the GotHook.
FiniStore ==
    /\ pc.fini = "locked"
    /\ open_hook' = 0
    /\ got' = IF open_hook # 0 THEN DropWrite(got, handles[open_hook]) ELSE got
    /\ handles' = IF open_hook # 0
                  THEN [handles EXCEPT ![open_hook] = Dropped(handles[open_hook])]
                  ELSE handles
    /\ ret' = [NoRet EXCEPT !.op = "drop", !.h = open_hook]
    /\ pc' = [pc EXCEPT !.fini = "stored"]
    /\ UNCHANGED << img, maps, invoked, fnVars, mutex, opens >>

\* fini returns: the guard is dropped.
FiniUnlock ==
    /\ pc.fini = "stored"
    /\ mutex' = "free"
    /\ pc' = [pc EXCEPT !.fini = "done"]
    /\ UNCHANGED << engineVars, fnVars, open_hook, opens >>

\* A thread calls open: the call goes where the slot points at that moment,
\* to libc's open or into open_callback.
CallOpen(t) ==
    /\ Running
    /\ pc.thread[t] = "idle" /\ opens[t].started < MaxOpens
    /\ IF got[OpenSlot] = "open_callback"
       THEN /\ pc' = [pc EXCEPT !.thread[t] = "entered"]
            /\ opens' = [opens EXCEPT ![t].started = @ + 1]
       ELSE /\ pc' = pc
            /\ opens' = [opens EXCEPT ![t].started = @ + 1, ![t].direct = @ + 1]
    /\ UNCHANGED << engineVars, fnVars, mutex, open_hook >>

\* open_callback: OPEN_HOOK.lock().unwrap()
CallbackLock(t) ==
    /\ Running
    /\ pc.thread[t] = "entered" /\ mutex = "free"
    /\ mutex' = "thread"
    /\ pc' = [pc EXCEPT !.thread[t] = "locked"]
    /\ UNCHANGED << engineVars, fnVars, open_hook, opens >>

\* open_callback: if let Some(hook) ... original_open(..) else -1
CallbackBody(t) ==
    /\ Running
    /\ pc.thread[t] = "locked"
    /\ opens' = IF open_hook # 0
                THEN [opens EXCEPT ![t].forwarded = @ + 1]
                ELSE [opens EXCEPT ![t].lost = @ + 1]
    /\ pc' = [pc EXCEPT !.thread[t] = "returning"]
    /\ UNCHANGED << engineVars, fnVars, mutex, open_hook >>

\* open_callback returns: the guard is dropped.
CallbackReturn(t) ==
    /\ Running
    /\ pc.thread[t] = "returning"
    /\ mutex' = "free"
    /\ pc' = [pc EXCEPT !.thread[t] = "idle"]
    /\ UNCHANGED << engineVars, fnVars, open_hook, opens >>

DemoNext ==
    \/ InitLock
    \/ \E e \in Envs : InitInstall(e)
    \/ InitStore
    \/ InitUnlock
    \/ FiniLock
    \/ FiniStore
    \/ FiniUnlock
    \/ \E t \in Threads : CallOpen(t)
    \/ \E t \in Threads : CallbackLock(t)
    \/ \E t \in Threads : CallbackBody(t)
    \/ \E t \in Threads : CallbackReturn(t)

SpecDemo == DemoInit /\ [][DemoNext]_vars

\* ================================================================ claims
\* Errors new() returns before it looks at the image's program headers.
EarlyErrors ==
    {"Dladdr", "FindCurrentProcess", "ReadProcessMaps", "Panic",
     "ParseElfHeader", "GetElfEndianness"}

Released(h) == handles[h].state = "Installed" /\ handles'[h].state = "Released"

\* C1. Round trip: once a handle has been dropped, its slot holds the value
\* the slot held just before the install that created the handle, however
\* often the replacement was called in between.
C1_RoundTrip ==
    ret.op = "drop" =>
        got[handles[ret.h].got_entry] = handles[ret.h].before

\* A handle whose replacement was called has just been dropped.
C1_Witness ==
    /\ ret.op = "drop"
    /\ handles[ret.h].calls > 0
    /\ got[handles[ret.h].got_entry] # handles[ret.h].callback

\* C2. Independence: a drop writes its own slot and no other, leaving there
\* the handle's original value; a hook installed on another slot is still
\* in place after it.
C2_Independence ==
    [][\A a \in Handles : Released(a) =>
          /\ got'[handles[a].got_entry] = handles[a].original_function
          /\ \A s \in DOMAIN got : s # handles[a].got_entry => got'[s] = got[s]
          /\ \A b \in Handles :
                (/\ handles[b].state = "Installed"
                 /\ handles[b].got_entry # handles[a].got_entry
                 /\ got[handles[b].got_entry] = handles[b].callback)
                => got'[handles[b].got_entry] = handles[b].callback]_vars

\* A was installed before B on another function, A alone has been dropped:
\* B's slot holds B's replacement and A's slot A's original.
C2_Witness ==
    /\ ret.op = "drop" /\ ret.h = 1
    /\ handles[1].state = "Released" /\ handles[2].state = "Installed"
    /\ handles[1].got_entry # handles[2].got_entry
    /\ got[handles[2].got_entry] = handles[2].callback
    /\ got[handles[1].got_entry] = handles[1].before

\* C3. No partial side effects: an install that returns an error leaves
\* the whole GOT as it was, and the GOT changes only in a step that is a
\* successful install or a drop.
C3_NoPartialEffects ==
    [][/\ (ret'.op = "install" /\ ret'.err # "Ok") => got' = got
       /\ got' # got => \/ ret'.op = "install" /\ ret'.err = "Ok"
                        \/ ret'.op = "drop"]_vars

\* A protection change was denied while another hook was in place.
C3_Witness ==
    /\ ret.op = "install" /\ ret.err = "ModifyMemoryPageProtection"
    /\ got # InitialGot

NoPtDynamic(image) ==
    \A k \in 1..Len(image.phdrs) : image.phdrs[k].p_type # PT_DYNAMIC

PhCountZero(image) ==
    image.e_phnum = 0 \/ (image.e_phnum = PN_XNUM /\ image.sh0_info = 0)

\* C5. Missing structures: on an image whose program header offset or
\* count is zero install returns ElfHasNoProgramHeaders, also when the image
\* has no PT_DYNAMIC header; on an image whose program headers are read and
\* hold no PT_DYNAMIC it returns ElfHasNoDynamicSegment (unless an earlier
\* step of install failed already).
C5_MissingStructures ==
    (ret.op = "install" /\ ret.err \notin EarlyErrors) =>
        /\ (img.e_phoff = 0 \/ PhCountZero(img)) => ret.err = "ElfHasNoProgramHeaders"
        /\ (/\ img.e_phoff # 0 /\ ~PhCountZero(img)
            /\ ret.err \notin {"GetElfProgramHeadersNumber", "ReadElfProgramHeaders"}
            /\ NoPtDynamic(img)) => ret.err = "ElfHasNoDynamicSegment"

\* An image with neither program headers nor a dynamic segment was refused
\* for its program headers.
C5_Witness ==
    /\ ret.op = "install" /\ ret.err = "ElfHasNoProgramHeaders"
    /\ NoPtDynamic(img)
    /\ img.e_phnum = 0

LacksOneTag(image) == \E tag \in RequiredTags : image = WithoutTag(WellFormed, tag)

\* C6. Required dynamic entries: on an image that lacks one of the six
\* tags, install of a function that has a relocation fails with the
\* missing-entry error and the GOT stays as loaded.
C6_RequiredEntries ==
    (/\ ret.op = "install" /\ LacksOneTag(img)
     /\ ret.err \notin EarlyErrors \cup {"ModifyMemoryPageProtection"})
    => ret.err = "ElfHasNoPltRelocationTable" /\ got = InitialGot

HandleOk(h) ==
    /\ handles[h].state \in {"none", "Installed", "Released"}
    /\ handles[h].restores = IF handles[h].state = "Released" THEN 1 ELSE 0
    /\ handles[h].state # "none" =>
          /\ handles[h].original_function = handles[h].before
          /\ GetOriginalFunction(handles[h]) = handles[h].before

ScanMatches ==
    {i \in DOMAIN arg.table :
        /\ arg.table[i].r_type = R_AARCH64_JUMP_SLOT
        /\ arg.table[i].r_sym \in DOMAIN NamedSymbols
        /\ NamedSymbols[arg.table[i].r_sym] = arg.name}

\* Jump slot records whose symbol, or its name, cannot be read.
ScanFailures ==
    {i \in DOMAIN arg.table :
        /\ arg.table[i].r_type = R_AARCH64_JUMP_SLOT
        /\ arg.table[i].r_sym \notin DOMAIN NamedSymbols}

FirstMatch == CHOOSE i \in ScanMatches : \A j \in ScanMatches : i <= j

\* C4 as stated: the scan returns base + offset of the first jump slot
\* record whose symbol name is the function's, and NoGotEntryForFunction
\* when there is none and no symbol read failed.
C4_FirstMatchAsStated ==
    res.fn = "scan" =>
        IF ScanMatches # {}
        THEN res.err = "Ok" /\ res.addr = ModuleBase + Slot(FirstMatch)
        ELSE ScanFailures = {} => res.err = "NoGotEntryForFunction"

\* C4, amended: when the dynamic segment has a SYMTAB entry and no jump
\* slot record before the first match has an unreadable symbol or name, the
\* scan returns base + offset of the first jump slot record whose symbol
\* name is the function's; when there is no match and no such record at
\* all, it returns NoGotEntryForFunction.
C4_FirstMatch ==
    (res.fn = "scan" /\ arg.symtab) =>
        /\ (ScanMatches # {} /\ \A j \in ScanFailures : j > FirstMatch)
              => res.err = "Ok" /\ res.addr = ModuleBase + Slot(FirstMatch)
        /\ (ScanMatches = {} /\ ScanFailures = {})
              => res.err = "NoGotEntryForFunction"

\* Two records match and a record of another kind comes first: the scan
\* returned the earlier of the two.
C4_Witness ==
    /\ res.fn = "scan" /\ arg.symtab
    /\ Cardinality(ScanMatches) >= 2
    /\ FirstMatch > 1
    /\ res.err = "Ok" /\ res.addr = ModuleBase + Slot(FirstMatch)

\* ------------------------------------------------------------ C7
\* No mapping starts at the base address, or fewer than three follow the
\* one that does.
RangeNotFound ==
    LET m == SortedPages(arg.pages)
        at == {i \in 1..Len(m) : m[i].start = arg.base * PAGE_SIZE}
    IN  at = {} \/ \A i \in at : Len(m) - i < 3

\* C7. When the module's range cannot be found among the mappings,
\* find_elf_in_memory fails with ModuleRangeNotFound.
C7_ModuleRangeNotFound ==
    (res.fn = "maps" /\ RangeNotFound) => res.err = "ModuleRangeNotFound"

\* ------------------------------------------------------------ C8
\* C8. The relocation table view has PLTRELSZ / size_of(Rela64) records,
\* and a table that lies inside the image is not refused as unreadable.
C8_TableLength ==
    res.fn = "table" =>
        /\ res.err = "Ok" => res.count = (arg.n * RelaSize) \div RelaSize
        /\ res.err # "ReadElfPltRelocationTable"

====
